---- MODULE Spec2Model ----
(***************************************************************************)
(* A model of the curate-bids utility scripts.                             *)
(*                                                                         *)
(*   scripts/save_bids_curation.py : make_file_name_safe, do_print,        *)
(*                                   save_curation_csvs, __main__          *)
(*   run.py                        : the gear entry point                  *)
(*                                                                         *)
(* Python str values that the code inspects character by character (file   *)
(* names, IntendedFor entries, regular expressions, labels that go through *)
(* make_file_name_safe) are sequences of one-character strings.  Values    *)
(* that are only built, compared and stored (BIDS paths, labels) are TLA+  *)
(* strings.  A Python dict is a sequence of <<key, value>> pairs in        *)
(* insertion order, as dict iteration order is insertion order.            *)
(***************************************************************************)
EXTENDS Integers, Sequences, FiniteSets, TLC

VARIABLES
    \* ---- make_file_name_safe called on its own
    safe_pc, input_basename, replace_str, safe_output_basename,
    \* ---- run.py
    run_pc, config_json, main_with_args_calls,
    \* ---- save_bids_curation.py: arguments and the platform
    pc, args, project, subjects, fw_calls,
    \* ---- save_curation_csvs: position of the traversal
    cur_subject, cur_session, cur_acq, n_sessions, n_acqs,
    \* ---- save_curation_csvs: locals
    acquisition_labels, all_intended_for_acq_label, all_intended_for_acq_id,
    all_intended_for_dirs, all_intended_fors, all_seen_paths, num_duplicates,
    all_df, nifti_df, ii, seen_paths,
    intended_for_acq_label, intended_for_acq_id, intended_for_dirs, intended_fors,
    new_intended_fors,
    \* ---- save_curation_csvs: what it produces
    niftis_csv, intendedfors_csv, acquisitions_csv, written, stdout

safe_vars == <<safe_pc, input_basename, replace_str, safe_output_basename>>

run_vars == <<run_pc, config_json, main_with_args_calls>>

scan_vars == <<pc, args, project, subjects, fw_calls,
               cur_subject, cur_session, cur_acq, n_sessions, n_acqs,
               acquisition_labels, all_intended_for_acq_label, all_intended_for_acq_id,
               all_intended_for_dirs, all_intended_fors, all_seen_paths, num_duplicates,
               all_df, nifti_df, ii, seen_paths,
               intended_for_acq_label, intended_for_acq_id, intended_for_dirs,
               intended_fors, new_intended_fors,
               niftis_csv, intendedfors_csv, acquisitions_csv, written, stdout>>

vars == <<safe_vars, run_vars, scan_vars>>

(***************************************************************************)
(* Bounds of the model.                                                    *)
(***************************************************************************)
\* longest input string given to make_file_name_safe on its own
MaxLen == 4

\* subjects, acquisitions and files of the project, taken together
MaxNodes == 6

(***************************************************************************)
(* Characters.                                                             *)
(***************************************************************************)
UpperCase == {"A","B","C","D","E","F","G","H","I","J","K","L","M",
              "N","O","P","Q","R","S","T","U","V","W","X","Y","Z"}

LowerCase == {"a","b","c","d","e","f","g","h","i","j","k","l","m",
              "n","o","p","q","r","s","t","u","v","w","x","y","z"}

Digits == {"0","1","2","3","4","5","6","7","8","9"}

\* the complement of the class [^A-Za-z0-9_\-.] of safe_patt
SafeChars == UpperCase \cup LowerCase \cup Digits \cup {"_", "-", "."}

\* safe_patt matches one or more characters outside SafeChars
IsUnsafe(c) == c \notin SafeChars

\* safe_patt.match(s): the pattern matches at the start of s
SafePattMatch(s) == Len(s) > 0 /\ IsUnsafe(s[1])

\* what is left of s after the run of unsafe characters it begins with
RECURSIVE SkipRun(_)
SkipRun(s) == IF s # <<>> /\ IsUnsafe(s[1]) THEN SkipRun(Tail(s)) ELSE s

\* a mutant of ReSub: only the first run of unsafe characters is replaced
RECURSIVE ReSubFirstOnly(_, _)
ReSubFirstOnly(s, repl) ==
    IF s = <<>> THEN <<>>
    ELSE IF IsUnsafe(s[1]) THEN repl \o SkipRun(s)
    ELSE <<s[1]>> \o ReSubFirstOnly(Tail(s), repl)

\* re.sub(safe_patt, repl, s): every maximal run of unsafe characters of s
\* is replaced by repl
RECURSIVE ReSub(_, _)
ReSub(s, repl) ==
    IF s = <<>> THEN <<>>
    ELSE IF IsUnsafe(s[1]) THEN repl \o ReSub(SkipRun(s), repl)
    ELSE <<s[1]>> \o ReSub(Tail(s), repl)

\* make_file_name_safe(basename, repl)
make_file_name_safe(basename, repl) ==
    LET r   == IF SafePattMatch(repl) THEN <<>> ELSE repl
        sub == ReSub(basename, r)
    IN  IF sub # <<>> /\ sub[1] = "." THEN Tail(sub) ELSE sub

(***************************************************************************)
(* Python values used by save_curation_csvs.                               *)
(***************************************************************************)
\* dict: a sequence of <<key, value>> pairs in insertion order
DictKeys(d) == {d[i][1] : i \in DOMAIN d}

DictHas(d, k) == k \in DictKeys(d)

DictGet(d, k) == d[CHOOSE i \in DOMAIN d : d[i][1] = k][2]

\* d[k] = v: a present key keeps its place, a new key goes last
DictSet(d, k, v) ==
    IF DictHas(d, k)
    THEN [i \in DOMAIN d |-> IF d[i][1] = k THEN <<k, v>> ELSE d[i]]
    ELSE Append(d, <<k, v>>)

\* code points of the characters the model's strings are made of, for str.__lt__
Ord(c) ==
    CASE c = " " -> 32 [] c = "-" -> 45 [] c = "." -> 46 [] c = "/" -> 47
      [] c = "1" -> 49 [] c = "2" -> 50 [] c = "_" -> 95
      [] c = "a" -> 97 [] c = "b" -> 98 [] c = "f" -> 102 [] c = "g" -> 103
      [] c = "p" -> 112 [] c = "r" -> 114 [] c = "z" -> 122

\* s < t for two str values (lexicographic on code points)
RECURSIVE StrLess(_, _)
StrLess(s, t) ==
    IF t = <<>> THEN FALSE
    ELSE IF s = <<>> THEN TRUE
    ELSE IF s[1] # t[1] THEN Ord(s[1]) < Ord(t[1])
    ELSE StrLess(Tail(s), Tail(t))

\* list.sort() of a list of str
ListSort(l) == SortSeq(l, StrLess)

\* regex.search(s) for a regular expression made of literal characters only:
\* the expression occurs somewhere in s
Search(regex, s) ==
    \E i \in 1..(Len(s) - Len(regex) + 1) : SubSeq(s, i, i + Len(regex) - 1) = regex

\* the BIDS paths the model's files can have, in the order of str.__lt__
PathOrder == <<"Not_yet_BIDS_curated", "fmap/fa", "ignored",
               "missing_ignore missing_Filename ", "nonBids">>

PathRank(p) == CHOOSE i \in DOMAIN PathOrder : PathOrder[i] = p

(***************************************************************************)
(* The platform: what the SDK client returns for the project.              *)
(***************************************************************************)
\* file names and IntendedFor entries
NameA == <<"f", "a">>

NameB == <<"f", "b">>

R1 == <<"r", "1">>

R2 == <<"r", "2">>

\* file.info["BIDS"] == "NA"
BidsNA == [NA |-> TRUE]

\* the files an acquisition can hold: name, type and the info dict (a function
\* whose domain is the set of keys present)
FileChoices == {
    \* never curated
    [name |-> NameB, type |-> "dicom", info |-> [SeriesNumber |-> "7"]],
    \* curated as not BIDS
    [name |-> NameA, type |-> "dicom", info |-> [BIDS |-> BidsNA, SeriesNumber |-> "3"]],
    \* curated, with two of the expected keys absent
    [name |-> NameB, type |-> "nifti", info |-> [BIDS |-> [Folder |-> "func"]]],
    \* curated and ignored, with an empty IntendedFor list
    [name |-> NameA, type |-> "nifti",
     info |-> [BIDS |-> [ignore |-> TRUE, Folder |-> "func", Filename |-> "r1"],
               IntendedFor |-> <<>>]],
    \* a fieldmap whose IntendedFor list is not in sorted order
    [name |-> NameA, type |-> "nifti",
     info |-> [BIDS |-> [ignore |-> FALSE, Folder |-> "fmap", Filename |-> "fa",
                         IntendedFor |-> <<[Folder |-> "func"]>>],
               IntendedFor |-> <<R2, R1>>]],
    \* a fieldmap curated to the same path, whose BIDS entry has lost its
    \* IntendedFor folders
    [name |-> NameB, type |-> "nifti",
     info |-> [BIDS |-> [ignore |-> FALSE, Folder |-> "fmap", Filename |-> "fa"],
               IntendedFor |-> <<R1>>]] }

AcqLabels == {"fmap_SE", "task_rest"}

SubjectLabel(n) == "sub-" \o ToString(n)

SessionLabel(n) == "ses-" \o ToString(n)

\* no current subject or session
None == "None"

\* no current acquisition
NoAcq == [label |-> "", id |-> 0]

\* args.intended_for: None when -i is not given, else the list that follows -i
NotGiven == [given |-> FALSE, list |-> <<>>]

Given(l) == [given |-> TRUE, list |-> l]

\* if args.intended_for: neither None nor an empty list
Truthy(a) == a.given /\ Len(a.list) > 0

VerboseCounts == {0, 1}

\* the command lines: the -v count and the -i list
IntendedForArgs == {
    NotGiven,
    Given(<< <<"a">>, <<"1">>, <<"a">>, <<"r">>, <<"z">> >>) }

GroupLabel == <<"g", " ">>

ProjectLabel == <<".", "p", "/">>

(***************************************************************************)
(* save_curation_csvs: the traversal of the project.                       *)
(***************************************************************************)
\* a mutant of BidsPath: only the first absent key is reported
BidsPathFirstMissing(info) ==
    IF "BIDS" \in DOMAIN info
    THEN IF info["BIDS"] = BidsNA
         THEN "nonBids"
         ELSE LET bids == info["BIDS"]
              IN  IF "ignore" \notin DOMAIN bids THEN "missing_ignore "
                  ELSE IF "Folder" \notin DOMAIN bids THEN "missing_Folder "
                  ELSE IF "Filename" \notin DOMAIN bids THEN "missing_Filename "
                  ELSE IF bids["ignore"] THEN "ignored"
                  ELSE bids["Folder"] \o "/" \o bids["Filename"]
    ELSE "Not_yet_BIDS_curated"

\* the curated BIDS path of a file, from its info dict
BidsPath(info) ==
    IF "BIDS" \in DOMAIN info
    THEN IF info["BIDS"] = BidsNA
         THEN "nonBids"
         ELSE LET bids     == info["BIDS"]
                  miss(k)  == IF k \notin DOMAIN bids THEN "missing_" \o k \o " " ELSE ""
                  missing  == miss("ignore") \o miss("Folder") \o miss("Filename")
              IN  IF missing = ""
                  THEN IF bids["ignore"]
                       THEN "ignored"
                       ELSE bids["Folder"] \o "/" \o bids["Filename"]
                  ELSE missing
    ELSE "Not_yet_BIDS_curated"

\* whether the scan records the file as a fieldmap with an IntendedFor list
RecordsIntendedFor(info) ==
    /\ "BIDS" \in DOMAIN info
    /\ "IntendedFor" \in DOMAIN info
    /\ Len(info["IntendedFor"]) > 0

\* the folders kept for a recorded fieldmap
IntendedForDirs(info) ==
    IF "IntendedFor" \in DOMAIN info["BIDS"]
    THEN info["BIDS"]["IntendedFor"]
    ELSE << [Folder |-> "folder is missing"] >>

SeriesNumberOf(info) ==
    IF "SeriesNumber" \in DOMAIN info THEN info["SeriesNumber"] ELSE "?"

\* paths that take no part in the detection of duplicates
NotCounted == {"ignored", "nonBids", "Not_yet_BIDS_curated"}

\* seen_paths after a file with this path
SeenAfter(seen, path) ==
    IF path \in NotCounted THEN seen
    ELSE IF DictHas(seen, path) THEN DictSet(seen, path, DictGet(seen, path) + 1)
    ELSE DictSet(seen, path, 0)

\* a mutant of UniqueFlag: the count is read before it is incremented
UniqueFlagBeforeIncrement(seen, path) ==
    IF path \in NotCounted THEN ""
    ELSE IF DictHas(seen, path)
         THEN "duplicate " \o ToString(DictGet(seen, path))
    ELSE "unique"

\* the "Unique?" column of a file with this path
UniqueFlag(seen, path) ==
    IF path \in NotCounted THEN ""
    ELSE IF DictHas(seen, path)
         THEN "duplicate " \o ToString(DictGet(SeenAfter(seen, path), path))
    ELSE "unique"

\* num_duplicates after a file with this path
DuplicatesAfter(n, seen, path) ==
    IF path \notin NotCounted /\ DictHas(seen, path) THEN n + 1 ELSE n

\* a mutant of NextRowIndex: the index is not advanced
RowIndexNotAdvanced(i) == i

\* the row index of the file after this one
NextRowIndex(i) == i + 1

\* the orders in which sort_values(by "Curated BIDS path") can leave the rows:
\* the default sort is not stable, rows with equal paths come in any order
SortedOrders(df) ==
    LET rank == [i \in 1..Len(df) |-> PathRank(df[i][2].path)]
    IN  {o \in Permutations(1..Len(df)) :
            \A i \in 1..(Len(df) - 1) : rank[o[i]] <= rank[o[i + 1]]}

\* the subjects, acquisitions and files the traversal has visited
Nodes == Len(subjects) + n_acqs + Len(project)

Init_scan ==
    /\ pc = "scan"
    /\ args \in [group_label : {GroupLabel}, project_label : {ProjectLabel},
                 intended_for : IntendedForArgs, verbose : VerboseCounts]
    /\ project = <<>>
    /\ subjects = <<>>
    /\ fw_calls = <<>>
    /\ cur_subject = None
    /\ cur_session = None
    /\ cur_acq = NoAcq
    /\ n_sessions = 0
    /\ n_acqs = 0
    /\ acquisition_labels = <<>>
    /\ all_intended_for_acq_label = <<>>
    /\ all_intended_for_acq_id = <<>>
    /\ all_intended_for_dirs = <<>>
    /\ all_intended_fors = <<>>
    /\ all_seen_paths = <<>>
    /\ num_duplicates = 0
    /\ all_df = <<>>
    /\ nifti_df = <<>>
    /\ ii = 0
    /\ seen_paths = <<>>
    /\ intended_for_acq_label = <<>>
    /\ intended_for_acq_id = <<>>
    /\ intended_for_dirs = <<>>
    /\ intended_fors = <<>>
    /\ new_intended_fors = <<>>
    /\ niftis_csv = <<>>
    /\ intendedfors_csv = <<>>
    /\ acquisitions_csv = <<>>
    /\ written = <<>>
    /\ stdout = <<>>

\* for subject in project.subjects.iter_find(): the next subject, its locals fresh
BeginSubject ==
    /\ pc = "scan"
    /\ cur_subject = None
    /\ Nodes < MaxNodes
    /\ cur_subject' = SubjectLabel(Len(subjects) + 1)
    /\ subjects' = Append(subjects, cur_subject')
    /\ intended_for_acq_label' = <<>>
    /\ intended_for_acq_id' = <<>>
    /\ intended_for_dirs' = <<>>
    /\ intended_fors' = <<>>
    /\ nifti_df' = <<>>
    /\ ii' = 0
    /\ seen_paths' = <<>>
    /\ cur_session' = None
    /\ cur_acq' = NoAcq
    /\ n_sessions' = 0
    /\ UNCHANGED <<pc, args, project, fw_calls, n_acqs, acquisition_labels,
                   all_intended_for_acq_label, all_intended_for_acq_id,
                   all_intended_for_dirs, all_intended_fors, all_seen_paths,
                   num_duplicates, all_df, new_intended_fors,
                   niftis_csv, intendedfors_csv, acquisitions_csv, written, stdout>>
    /\ UNCHANGED <<safe_vars, run_vars>>

\* for session in subject.sessions(): for acquisition in session.acquisitions():
\* the next acquisition, in the current session or in the subject's next one
BeginAcquisition ==
    /\ pc = "scan"
    /\ cur_subject # None
    /\ Nodes < MaxNodes
    /\ \E label \in AcqLabels, new_session \in BOOLEAN :
          /\ cur_session = None => new_session
          /\ n_sessions' = IF new_session THEN n_sessions + 1 ELSE n_sessions
          /\ cur_session' = SessionLabel(n_sessions')
          /\ n_acqs' = n_acqs + 1
          /\ cur_acq' = [label |-> label, id |-> n_acqs']
          /\ acquisition_labels' =
                IF DictHas(acquisition_labels, label)
                THEN DictSet(acquisition_labels, label, DictGet(acquisition_labels, label) + 1)
                ELSE DictSet(acquisition_labels, label, 1)
    /\ UNCHANGED <<pc, args, project, subjects, fw_calls, cur_subject,
                   all_intended_for_acq_label, all_intended_for_acq_id,
                   all_intended_for_dirs, all_intended_fors, all_seen_paths,
                   num_duplicates, all_df, nifti_df, ii, seen_paths,
                   intended_for_acq_label, intended_for_acq_id, intended_for_dirs,
                   intended_fors, new_intended_fors,
                   niftis_csv, intendedfors_csv, acquisitions_csv, written, stdout>>
    /\ UNCHANGED <<safe_vars, run_vars>>

\* for file in acquisition.reload().files: the body of the loop for one file
ScanFile ==
    /\ pc = "scan"
    /\ cur_acq # NoAcq
    /\ Nodes < MaxNodes
    /\ \E file \in FileChoices :
          \* file names are unique within an acquisition
          /\ \A i \in DOMAIN project :
                project[i].acq_id = cur_acq.id => project[i].name # file.name
          /\ LET bids_path == BidsPath(file.info)
                 unique    == UniqueFlag(seen_paths, bids_path)
                 row       == [series_number |-> SeriesNumberOf(file.info),
                               subject |-> cur_subject, session |-> cur_session,
                               acquisition |-> cur_acq.label, name |-> file.name,
                               type |-> file.type, path |-> bids_path, unique |-> unique]
             IN  /\ project' = Append(project,
                        [subject |-> cur_subject, session |-> cur_session,
                         acq_label |-> cur_acq.label, acq_id |-> cur_acq.id,
                         name |-> file.name, type |-> file.type, info |-> file.info])
                 /\ IF RecordsIntendedFor(file.info)
                    THEN /\ intended_fors' =
                               DictSet(intended_fors, file.name, file.info["IntendedFor"])
                         /\ intended_for_acq_label' =
                               DictSet(intended_for_acq_label, file.name, cur_acq.label)
                         /\ intended_for_acq_id' =
                               DictSet(intended_for_acq_id, file.name, cur_acq.id)
                         /\ intended_for_dirs' =
                               DictSet(intended_for_dirs, file.name, IntendedForDirs(file.info))
                    ELSE UNCHANGED <<intended_fors, intended_for_acq_label,
                                     intended_for_acq_id, intended_for_dirs>>
                 /\ seen_paths' = SeenAfter(seen_paths, bids_path)
                 /\ num_duplicates' = DuplicatesAfter(num_duplicates, seen_paths, bids_path)
                 /\ nifti_df' = DictSet(nifti_df, ii, row)
                 /\ ii' = NextRowIndex(ii)
    /\ UNCHANGED <<pc, args, subjects, fw_calls, cur_subject, cur_session, cur_acq,
                   n_sessions, n_acqs, acquisition_labels,
                   all_intended_for_acq_label, all_intended_for_acq_id,
                   all_intended_for_dirs, all_intended_fors, all_seen_paths,
                   all_df, new_intended_fors,
                   niftis_csv, intendedfors_csv, acquisitions_csv, written, stdout>>
    /\ UNCHANGED <<safe_vars, run_vars>>

\* the end of the subject's loop body: the rows sorted and appended, the
\* subject's dicts stored under its label
EndSubject ==
    /\ pc = "scan"
    /\ cur_subject # None
    /\ \E o \in SortedOrders(nifti_df) :
          all_df' = all_df \o [i \in 1..Len(nifti_df) |-> nifti_df[o[i]]]
    /\ all_intended_for_acq_label' =
          DictSet(all_intended_for_acq_label, cur_subject, intended_for_acq_label)
    /\ all_intended_for_acq_id' =
          DictSet(all_intended_for_acq_id, cur_subject, intended_for_acq_id)
    /\ all_intended_for_dirs' =
          DictSet(all_intended_for_dirs, cur_subject, intended_for_dirs)
    /\ all_intended_fors' = DictSet(all_intended_fors, cur_subject, intended_fors)
    /\ all_seen_paths' = DictSet(all_seen_paths, cur_subject, seen_paths)
    /\ cur_subject' = None
    /\ cur_session' = None
    /\ cur_acq' = NoAcq
    /\ UNCHANGED <<pc, args, project, subjects, fw_calls, n_sessions, n_acqs,
                   acquisition_labels, num_duplicates, nifti_df, ii, seen_paths,
                   intended_for_acq_label, intended_for_acq_id, intended_for_dirs,
                   intended_fors, new_intended_fors,
                   niftis_csv, intendedfors_csv, acquisitions_csv, written, stdout>>
    /\ UNCHANGED <<safe_vars, run_vars>>

(***************************************************************************)
(* save_curation_csvs: the three csv files and the report.                 *)
(***************************************************************************)
RECURSIVE Flatten(_)
Flatten(ss) == IF ss = <<>> THEN <<>> ELSE Head(ss) \o Flatten(Tail(ss))

\* the rows of the entries of a list
EntryRows(list) == [i \in DOMAIN list |-> [kind |-> "entry", entry |-> list[i]]]

\* the name of an output file: f"{safe_group_label}_{safe_project_label}{suffix}"
OutFile(safe_group_label, safe_project_label, suffix) ==
    [group |-> safe_group_label, project |-> safe_project_label, suffix |-> suffix]

HeaderRow(text) == [kind |-> "header", text |-> text]

FileRow(label, name) == [kind |-> "file", label |-> label, name |-> name]

FolderRow(folder) == [kind |-> "folder", folder |-> folder]

ColumnsRow == HeaderRow("acquisition label,file name and folder,IntendedFor List of BIDS paths")

\* the lists of one subject as the "Initial values" loop leaves them: a list is
\* sorted in place once for every folder of its file, so not at all when the
\* file has no folder
SortedInPlace(fors, dirs) ==
    [i \in DOMAIN fors |->
        IF Len(DictGet(dirs, fors[i][1])) > 0
        THEN <<fors[i][1], ListSort(fors[i][2])>>
        ELSE fors[i]]

\* all_intended_fors after the "Initial values" section
InitialLists(verbose, all_fors, all_dirs) ==
    IF verbose > 0
    THEN [s \in DOMAIN all_fors |->
             <<all_fors[s][1], SortedInPlace(all_fors[s][2], DictGet(all_dirs, all_fors[s][1]))>>]
    ELSE all_fors

\* the rows of the "Initial values" section
InitialRows ==
    LET fileRows(subj, k, v) ==
            <<FileRow(DictGet(DictGet(all_intended_for_acq_label, subj), k), k)>>
            \o Flatten([n \in DOMAIN v |->
                  <<FolderRow(v[n].Folder)>>
                  \o EntryRows(ListSort(DictGet(DictGet(all_intended_fors, subj), k)))])
        subjRows(s) ==
            Flatten([n \in DOMAIN all_intended_for_dirs[s][2] |->
                fileRows(all_intended_for_dirs[s][1],
                         all_intended_for_dirs[s][2][n][1],
                         all_intended_for_dirs[s][2][n][2])])
    IN  <<HeaderRow("Initial values (before correction)"), ColumnsRow>>
        \o Flatten([s \in DOMAIN all_intended_for_dirs |-> subjRows(s)])

\* zip(args.intended_for[::2], args.intended_for[1::2])
RegexPairs(l) == [i \in 1..(Len(l) \div 2) |-> <<l[2 * i - 1], l[2 * i]>>]

\* a mutant of MatchingPairs: the file name is not tested
MatchingPairsUntested(pairs, file_name) == pairs

\* the pairs whose first regex is found in the file name, in argument order
MatchingPairs(pairs, file_name) ==
    SelectSeq(pairs, LAMBDA pr : Search(pr[1], file_name))

\* the entries of the list in which the regex is found, in the list's order
Filtered(list, regex) == SelectSeq(list, LAMBDA i_f : Search(regex, i_f))

\* fw.modify_acquisition_file_info(acq_id, file_name, {"set": {"IntendedFor": list}})
ModifyCall(acq_id, file_name, list) ==
    [acq_id |-> acq_id, file_name |-> file_name,
     body |-> [set |-> [IntendedFor |-> list]]]

\* the info of the platform's file project[j] once the calls made so far are
\* applied: a call sets the keys of its "set" object on the file it names, in
\* the acquisition it names, and nothing else
PlatformInfo(j) ==
    LET f  == project[j]
        cs == SelectSeq(fw_calls,
                        LAMBDA c : c.acq_id = f.acq_id /\ c.file_name = f.name)
        set == cs[Len(cs)].body.set
    IN  IF cs = <<>> THEN f.info
        ELSE [k \in DOMAIN f.info \cup DOMAIN set |->
                 IF k \in DOMAIN set THEN set[k] ELSE f.info[k]]

\* the write-back calls made for one subject, given the lists as they are then
SubjectCalls(pairs, subj, all_fors, all_dirs, all_ids) ==
    LET dirs == DictGet(all_dirs, subj)
        callsOf(file_name) ==
            LET mp == MatchingPairs(pairs, file_name)
            IN  [n \in DOMAIN mp |->
                    ModifyCall(DictGet(DictGet(all_ids, subj), file_name), file_name,
                               Filtered(DictGet(DictGet(all_fors, subj), file_name), mp[n][2]))]
    IN  Flatten([n \in DOMAIN dirs |-> callsOf(dirs[n][1])])

\* new_intended_fors[subj]: an entry for every file with a matching pair, the
\* list computed from the last of them
SubjectNew(pairs, subj, all_fors, all_dirs) ==
    LET dirs    == DictGet(all_dirs, subj)
        matched == SelectSeq(dirs, LAMBDA kv : MatchingPairs(pairs, kv[1]) # <<>>)
        last(file_name) ==
            LET mp == MatchingPairs(pairs, file_name) IN mp[Len(mp)]
    IN  [n \in DOMAIN matched |->
            <<matched[n][1], Filtered(DictGet(DictGet(all_fors, subj), matched[n][1]),
                                      last(matched[n][1])[2])>>]

\* every write-back call of a run, in the order made
WriteBackCalls(intended_for, all_fors, all_dirs, all_ids) ==
    IF Truthy(intended_for)
    THEN Flatten([s \in DOMAIN all_dirs |->
             SubjectCalls(RegexPairs(intended_for.list), all_dirs[s][1],
                          all_fors, all_dirs, all_ids)])
    ELSE <<>>

\* new_intended_fors of a run
NewIntendedFors(intended_for, all_fors, all_dirs) ==
    IF Truthy(intended_for)
    THEN [s \in DOMAIN all_dirs |->
             <<all_dirs[s][1],
               SubjectNew(RegexPairs(intended_for.list), all_dirs[s][1], all_fors, all_dirs)>>]
    ELSE all_fors

\* the files of all_intended_for_dirs, in the order the loops visit them
FinalItems ==
    Flatten([s \in DOMAIN all_intended_for_dirs |->
        [n \in DOMAIN all_intended_for_dirs[s][2] |->
            [subj |-> all_intended_for_dirs[s][1],
             k |-> all_intended_for_dirs[s][2][n][1],
             v |-> all_intended_for_dirs[s][2][n][2]]]])

\* whether new_intended_fors[subj][k] finds a list (a KeyError when it does not)
HasFinal(new, subj, k) == DictHas(DictGet(new, subj), k)

\* new_intended_fors[subj][k]
FinalList(new, subj, k) ==
    IF DictHas(DictGet(new, subj), k) THEN DictGet(DictGet(new, subj), k) ELSE <<>>

\* the first file whose list the "Final values" loops do not find, 0 when they
\* find every list: a file with no folder is not looked up
KeyErrorAt(items, new) ==
    LET bad == {n \in DOMAIN items :
                   items[n].v # <<>> /\ ~HasFinal(new, items[n].subj, items[n].k)}
    IN  IF bad = {} THEN 0 ELSE CHOOSE n \in bad : \A m \in bad : n <= m

\* the rows the "Final values" loops write for the files, and whether the loops
\* ran to their end: the list of a file is looked up once for each of its
\* folders, after the folder's row is written
FinalRows(items, new) ==
    LET stop == KeyErrorAt(items, new)
        itemRows(n) ==
            LET it == items[n]
                fileRow == FileRow(DictGet(DictGet(all_intended_for_acq_label, it.subj),
                                           it.k), it.k)
            IN  IF n = stop
                THEN <<fileRow, FolderRow(it.v[1].Folder)>>
                ELSE <<fileRow>>
                     \o Flatten([m \in DOMAIN it.v |->
                           <<FolderRow(it.v[m].Folder)>>
                           \o EntryRows(FinalList(new, it.subj, it.k))])
    IN  [rows |-> Flatten([n \in 1..(IF stop = 0 THEN Len(items) ELSE stop) |->
                              itemRows(n)]),
         ok   |-> stop = 0]

\* the rows of the acquisitions file: a row for every label with its count
AcquisitionRows ==
    <<HeaderRow("acquisition label,count")>>
    \o [n \in DOMAIN acquisition_labels |->
            [kind |-> "count", label |-> acquisition_labels[n][1],
             count |-> acquisition_labels[n][2]]]

\* the paths of one subject counted more than once
RepeatedPaths(seen) ==
    LET repeated == SelectSeq(seen, LAMBDA kv : kv[2] > 0)
    IN  [n \in DOMAIN repeated |-> repeated[n][1]]

\* what the report of duplicates prints, the subjects iterated once more
ReportLines ==
    IF num_duplicates > 0
    THEN <<"ERROR: the following BIDS paths appear more than once:">>
         \o Flatten([n \in DOMAIN subjects |->
               LET paths == RepeatedPaths(DictGet(all_seen_paths, subjects[n]))
               IN  [m \in DOMAIN paths |-> "  " \o paths[m]]])
    ELSE <<"No duplicates were found.">>

\* the rest of the run, once the traversal has ended: the niftis file is written;
\* the intendedfors file is opened and, with -v, gets its "Initial values"
\* section, whose loop sorts the lists; with -i the lists are filtered and
\* written back to the platform; the "Final values" section is written, and the
\* file is closed when the with block is left, normally or by the KeyError,
\* which ends the run; the acquisitions file is written, the report of
\* duplicates printed, and the script exits with status 0
SaveCsvs ==
    /\ pc = "scan"
    /\ cur_subject = None
    /\ \E lists \in {InitialLists(args.verbose, all_intended_fors, all_intended_for_dirs)} :
       \E new \in {NewIntendedFors(args.intended_for, lists, all_intended_for_dirs)} :
       \E final \in {FinalRows(FinalItems, new)} :
       \E safe_g \in {make_file_name_safe(args.group_label, <<"_">>)} :
       \E safe_p \in {make_file_name_safe(args.project_label, <<"_">>)} :
       LET head == (IF args.verbose > 0
                    THEN <<HeaderRow("Final values (after correction)")>> ELSE <<>>)
                   \o <<HeaderRow(",,"), ColumnsRow>>
       IN  /\ niftis_csv' = [i \in DOMAIN all_df |-> all_df[i][2]]
           /\ all_intended_fors' = lists
           /\ fw_calls' = fw_calls \o WriteBackCalls(args.intended_for, lists,
                                                     all_intended_for_dirs,
                                                     all_intended_for_acq_id)
           /\ new_intended_fors' = new
           /\ intendedfors_csv' =
                 (IF args.verbose > 0 THEN InitialRows ELSE <<>>) \o head \o final.rows
           /\ IF final.ok
              THEN /\ acquisitions_csv' = AcquisitionRows
                   /\ written' = written \o <<OutFile(safe_g, safe_p, "_niftis.csv"),
                                              OutFile(safe_g, safe_p, "_intendedfors.csv"),
                                              OutFile(safe_g, safe_p, "_acquisitions.csv")>>
                   /\ stdout' = stdout \o ReportLines
                   /\ pc' = "exit0"
              ELSE /\ acquisitions_csv' = acquisitions_csv
                   /\ written' = written \o <<OutFile(safe_g, safe_p, "_niftis.csv")>>
                   /\ stdout' = stdout
                   /\ pc' = "KeyError"
    \* the locals of the subject loop are not used again
    /\ UNCHANGED <<args, project, subjects,
                   cur_subject, cur_session, cur_acq, n_sessions, n_acqs,
                   acquisition_labels, all_intended_for_acq_label, all_intended_for_acq_id,
                   all_intended_for_dirs, all_seen_paths, num_duplicates,
                   all_df, nifti_df, ii, seen_paths,
                   intended_for_acq_label, intended_for_acq_id, intended_for_dirs,
                   intended_fors>>
    /\ UNCHANGED <<safe_vars, run_vars>>

(***************************************************************************)
(* make_file_name_safe called on its own.                                  *)
(***************************************************************************)
\* the characters of the inputs: inside and outside the safe class
InputChars == {"a", "Z", "7", "_", ".", "-", " ", "/"}

\* the str values of at most n characters
Strings(n) == UNION {[1..m -> InputChars] : m \in 0..n}

ReplaceStrs == {<<>>, <<"_">>, <<" ">>, <<"x", "/">>}

Init_safe ==
    /\ safe_pc = "call"
    /\ input_basename \in Strings(MaxLen)
    /\ replace_str \in ReplaceStrs
    /\ safe_output_basename = <<>>

Idle_safe ==
    /\ safe_pc = "idle"
    /\ input_basename = <<>>
    /\ replace_str = <<>>
    /\ safe_output_basename = <<>>

CallMakeFileNameSafe ==
    /\ safe_pc = "call"
    /\ safe_output_basename' = make_file_name_safe(input_basename, replace_str)
    /\ safe_pc' = "returned"
    /\ UNCHANGED <<input_basename, replace_str>>
    /\ UNCHANGED <<run_vars, scan_vars>>

(***************************************************************************)
(* run.py                                                                  *)
(***************************************************************************)
ApiKeys == {"key-1", "key-2", "key-3", "key-4", "key-5"}

DestinationIds == {"id-1", "id-2", "id-3", "id-4", "id-5"}

\* the well-formed contents of /flywheel/v0/config.json
Configs ==
    {[inputs |-> [api_key |-> [key |-> k]], destination |-> [id |-> d],
      config |-> [reset |-> r]] : k \in ApiKeys, d \in DestinationIds, r \in BOOLEAN}

\* the names bound in the module when line 9 runs
BoundNames == {"json", "main_with_args", "CONFIG_FILE_PATH", "config_file"}

Init_run ==
    /\ run_pc = "start"
    /\ config_json \in Configs
    /\ main_with_args_calls = <<>>

Idle_run ==
    /\ run_pc = "idle"
    /\ config_json = <<>>
    /\ main_with_args_calls = <<>>

\* with open(CONFIG_FILE_PATH) as config_file:
OpenConfig ==
    /\ run_pc = "start"
    /\ run_pc' = "with"
    /\ UNCHANGED <<config_json, main_with_args_calls>>
    /\ UNCHANGED <<safe_vars, scan_vars>>

\* the body of the with block and the call that follows: json.load(CONFIG_FILE)
\* looks the name CONFIG_FILE up, and raises NameError when it is not bound
LoadAndCall ==
    /\ run_pc = "with"
    /\ IF "CONFIG_FILE" \in BoundNames
       THEN /\ main_with_args_calls' =
                  Append(main_with_args_calls,
                         <<config_json.inputs.api_key.key, config_json.destination.id,
                           config_json.config.reset>>)
            /\ run_pc' = "done"
       ELSE /\ main_with_args_calls' = main_with_args_calls
            /\ run_pc' = "NameError"
    /\ UNCHANGED config_json
    /\ UNCHANGED <<safe_vars, scan_vars>>

(***************************************************************************)
(* Specifications.                                                         *)
(***************************************************************************)
Init == Init_scan /\ Idle_safe /\ Idle_run

Next ==
    \/ BeginSubject
    \/ BeginAcquisition
    \/ ScanFile
    \/ EndSubject
    \/ SaveCsvs

\* save_bids_curation.py run from the command line
Spec == Init /\ [][Next]_vars

\* the scan variables while another script is modelled
Idle_scan ==
    /\ pc = "idle"
    /\ args = <<>>
    /\ project = <<>>
    /\ subjects = <<>>
    /\ fw_calls = <<>>
    /\ cur_subject = None
    /\ cur_session = None
    /\ cur_acq = NoAcq
    /\ n_sessions = 0
    /\ n_acqs = 0
    /\ acquisition_labels = <<>>
    /\ all_intended_for_acq_label = <<>>
    /\ all_intended_for_acq_id = <<>>
    /\ all_intended_for_dirs = <<>>
    /\ all_intended_fors = <<>>
    /\ all_seen_paths = <<>>
    /\ num_duplicates = 0
    /\ all_df = <<>>
    /\ nifti_df = <<>>
    /\ ii = 0
    /\ seen_paths = <<>>
    /\ intended_for_acq_label = <<>>
    /\ intended_for_acq_id = <<>>
    /\ intended_for_dirs = <<>>
    /\ intended_fors = <<>>
    /\ new_intended_fors = <<>>
    /\ niftis_csv = <<>>
    /\ intendedfors_csv = <<>>
    /\ acquisitions_csv = <<>>
    /\ written = <<>>
    /\ stdout = <<>>

InitSafe == Init_safe /\ Idle_run /\ Idle_scan

NextSafe == CallMakeFileNameSafe

\* make_file_name_safe applied to one input
SpecSafe == InitSafe /\ [][NextSafe]_vars

InitRun == Init_run /\ Idle_safe /\ Idle_scan

NextRun == OpenConfig \/ LoadAndCall

\* run.py started with a well-formed config file; the script runs to its end
SpecRun == InitRun /\ [][NextRun]_vars /\ WF_vars(NextRun)

(***************************************************************************)
(* Properties.                                                             *)
(***************************************************************************)
\* the run has ended, with exit status 0 or by the KeyError
Finished == pc \in {"exit0", "KeyError"}

RowsOf(df) == [i \in DOMAIN df |-> df[i][2]]

\* s without the dot it begins with, if it begins with one
StripDot(s) == IF s # <<>> /\ s[1] = "." THEN Tail(s) ELSE s

\* C1: make_file_name_safe with the default replace_str ("") returns the input
\* with every character outside [A-Za-z0-9_.-] removed, the others kept in
\* order, and a leading dot of what remains stripped.
C1_SafeNameDefault ==
    (safe_pc = "returned" /\ replace_str = <<>>) =>
        safe_output_basename =
            StripDot(SelectSeq(input_basename,
                LAMBDA c : c \in UpperCase \cup LowerCase \cup Digits \cup {"_", ".", "-"}))

\* C1 witness: an input with two runs of unsafe characters whose remainder
\* begins with a dot has been sanitised.
C1_Witness ==
    /\ safe_pc = "returned"
    /\ replace_str = <<>>
    /\ input_basename = <<" ", ".", "a", "/">>
    /\ safe_output_basename = <<"a">>

\* the k of the "duplicate k" flag, or "unique": the rows before row i that
\* have its path
FlagFromEarlierRows(rows, i) ==
    LET k == Cardinality({j \in 1..(i - 1) : rows[j].path = rows[i].path})
    IN  IF k = 0 THEN "unique" ELSE "duplicate " \o ToString(k)

TakesNoPart == {"ignored", "nonBids", "Not_yet_BIDS_curated"}

DuplicateRows(rows) == {i \in DOMAIN rows : rows[i].unique \notin {"", "unique"}}

\* C2: within a subject, the first file with a path (other than "ignored",
\* "nonBids", "Not_yet_BIDS_curated") is flagged "unique" and the k-th later file
\* with that path "duplicate k"; the counter of a path is the number of its
\* repeats, counters start afresh for each subject, and num_duplicates is the
\* number of rows flagged as duplicates so far, over all subjects.
C2_DuplicateCounting ==
    LET rows    == RowsOf(nifti_df)
        counted == {rows[i].path : i \in DOMAIN rows} \ TakesNoPart
    IN  /\ cur_subject # None =>
              /\ \A i \in DOMAIN rows :
                    rows[i].path \notin TakesNoPart =>
                        rows[i].unique = FlagFromEarlierRows(rows, i)
              /\ DictKeys(seen_paths) = counted
              /\ \A p \in counted :
                    DictGet(seen_paths, p) =
                        Cardinality({i \in DOMAIN rows : rows[i].path = p}) - 1
        /\ num_duplicates =
              Cardinality(DuplicateRows(RowsOf(all_df)))
              + (IF cur_subject # None THEN Cardinality(DuplicateRows(rows)) ELSE 0)

\* C2 witness: a path has been seen three times in one subject, its third file
\* flagged "duplicate 2".
C2_Witness ==
    /\ num_duplicates = 2
    /\ \E i \in DOMAIN all_df : all_df[i][2].unique = "duplicate 2"

\* C3: without a -i list no write-back call is made; with one, every call names
\* a file of the project whose name matches the first regex of a pair and sets
\* only IntendedFor, so that every other file and every other key of the
\* platform is as it was.
C3_ReadOnlyButIntendedFor ==
    /\ ~Truthy(args.intended_for) => fw_calls = <<>>
    /\ \A n \in DOMAIN fw_calls :
          /\ DOMAIN fw_calls[n].body = {"set"}
          /\ DOMAIN fw_calls[n].body.set = {"IntendedFor"}
          /\ \E j \in DOMAIN project :
                /\ project[j].acq_id = fw_calls[n].acq_id
                /\ project[j].name = fw_calls[n].file_name
          /\ \E m \in 1..(Len(args.intended_for.list) \div 2) :
                Search(args.intended_for.list[2 * m - 1], fw_calls[n].file_name)
    /\ \A j \in DOMAIN project :
          LET targeted == \E n \in DOMAIN fw_calls :
                              /\ project[j].acq_id = fw_calls[n].acq_id
                              /\ project[j].name = fw_calls[n].file_name
          IN  /\ ~targeted => PlatformInfo(j) = project[j].info
              /\ \A k \in DOMAIN project[j].info \ {"IntendedFor"} :
                    /\ k \in DOMAIN PlatformInfo(j)
                    /\ PlatformInfo(j)[k] = project[j].info[k]

\* C3 witness: a run with a -i list has written back to one fieldmap and left
\* another fieldmap, whose name matches no first regex, alone.
C3_Witness ==
    /\ Finished
    /\ fw_calls # <<>>
    /\ \E j \in DOMAIN project :
          /\ RecordsIntendedFor(project[j].info)
          /\ \A n \in DOMAIN fw_calls : fw_calls[n].file_name # project[j].name

\* C4: run.py, started with a well-formed config file, calls main_with_args
\* exactly once with (api key, destination id, reset) and does not stop with an
\* error before that call.
C4_RunCallsMain ==
    run_pc \in {"done", "NameError"} =>
        /\ run_pc = "done"
        /\ main_with_args_calls =
              << <<config_json.inputs.api_key.key, config_json.destination.id,
                   config_json.config.reset>> >>

\* the paths of the subject's files that more than one of its files has
RepeatedInSubject(subj) ==
    {p \in {BidsPath(project[j].info) : j \in {j \in DOMAIN project : project[j].subject = subj}}
        \ TakesNoPart :
        Cardinality({j \in DOMAIN project :
                        project[j].subject = subj /\ BidsPath(project[j].info) = p}) > 1}

\* C5: duplicates are a warning: when the scan counted a duplicate the run still
\* writes the three csv files and ends normally, and then prints, for every
\* subject, exactly the paths that more than one of its files has; with no
\* duplicate counted it prints "No duplicates were found." and no path.
C5_DuplicatesAreWarning ==
    /\ (Finished /\ num_duplicates > 0) =>
          /\ pc # "KeyError"
          /\ {written[i].suffix : i \in DOMAIN written} =
                {"_niftis.csv", "_intendedfors.csv", "_acquisitions.csv"}
    /\ (pc = "exit0" /\ num_duplicates > 0) =>
          /\ Len(stdout) > 0
          /\ {stdout[i] : i \in 2..Len(stdout)} =
                {"  " \o p : p \in UNION {RepeatedInSubject(subjects[n]) : n \in DOMAIN subjects}}
    /\ (pc = "exit0" /\ num_duplicates = 0) => stdout = <<"No duplicates were found.">>

\* what identifies the visit of a file in a row and in the project
VisitOfRow(row) == <<row.subject, row.session, row.acquisition, row.name, row.type>>

VisitOfFile(f) == <<f.subject, f.session, f.acq_label, f.name, f.type>>

\* C6: the table written to the niftis csv has exactly one row for every file
\* visited, none missing, none twice, none overwritten, and each row carries
\* the subject, session and acquisition label under which the file was visited.
C6_OneRowPerFile ==
    Finished =>
        /\ \E i \in DOMAIN written : written[i].suffix = "_niftis.csv"
        /\ Len(niftis_csv) = Len(project)
        /\ \A j \in DOMAIN project :
              Cardinality({i \in DOMAIN niftis_csv :
                              VisitOfRow(niftis_csv[i]) = VisitOfFile(project[j])})
              = Cardinality({i \in DOMAIN project :
                                VisitOfFile(project[i]) = VisitOfFile(project[j])})

\* C6 witness: the table of a finished run holds rows of two subjects.
C6_Witness ==
    /\ pc = "exit0"
    /\ \E i, j \in DOMAIN niftis_csv : niftis_csv[i].subject # niftis_csv[j].subject

\* the file is one the scan records as a fieldmap
IsFieldmap(f) ==
    /\ "BIDS" \in DOMAIN f.info
    /\ "IntendedFor" \in DOMAIN f.info
    /\ f.info.IntendedFor # <<>>

\* the (first regex, second regex) pairs of the -i list whose first regex is
\* found in the name
PairsFor(name) ==
    LET l == args.intended_for.list
    IN  SelectSeq([m \in 1..(Len(l) \div 2) |-> [fmap |-> l[2 * m - 1], bids |-> l[2 * m]]],
                  LAMBDA pr : Search(pr.fmap, name))

\* the entries of a scanned list that the regex is found in, in scanned order
Kept(list, regex) == SelectSeq(list, LAMBDA e : Search(regex, e))

\* C7: with a -i list, for every fieldmap file whose name matches the first
\* regex of a pair, a write-back is made for each matching pair in argument
\* order, each setting the entries of the file's scanned IntendedFor list that
\* match the pair's second regex, in scanned order; the list of the final
\* section of the csv is the one of the last matching pair.
C7_FilteredByPairs ==
    (Finished /\ Truthy(args.intended_for)) =>
        \A j \in DOMAIN project :
            (IsFieldmap(project[j]) /\ PairsFor(project[j].name) # <<>>) =>
                LET f     == project[j]
                    pairs == PairsFor(f.name)
                    calls == SelectSeq(fw_calls,
                                 LAMBDA c : c.acq_id = f.acq_id /\ c.file_name = f.name)
                IN  /\ Len(calls) = Len(pairs)
                    /\ \A n \in DOMAIN pairs :
                          calls[n].body.set.IntendedFor = Kept(f.info.IntendedFor, pairs[n].bids)
                    /\ DictHas(DictGet(new_intended_fors, f.subject), f.name)
                    /\ DictGet(DictGet(new_intended_fors, f.subject), f.name)
                          = Kept(f.info.IntendedFor, pairs[Len(pairs)].bids)

\* the curated path the metadata of a file determines
RECURSIVE MissingText(_)
MissingText(keys) ==
    IF keys = <<>> THEN "" ELSE "missing_" \o Head(keys) \o " " \o MissingText(Tail(keys))

PathFromMetadata(info) ==
    CASE "BIDS" \notin DOMAIN info -> "Not_yet_BIDS_curated"
      [] "BIDS" \in DOMAIN info /\ info.BIDS = BidsNA -> "nonBids"
      [] OTHER ->
            LET absent == SelectSeq(<<"ignore", "Folder", "Filename">>,
                                    LAMBDA k : k \notin DOMAIN info.BIDS)
            IN  IF absent # <<>> THEN MissingText(absent)
                ELSE IF info.BIDS.ignore THEN "ignored"
                ELSE info.BIDS.Folder \o "/" \o info.BIDS.Filename

\* C8: the curated path of every file is: "Not_yet_BIDS_curated" without a BIDS
\* key, "nonBids" for BIDS "NA", else "missing_<key> " for each absent key of
\* ignore, Folder, Filename in that order, else "ignored" or "<Folder>/<Filename>"
\* by BIDS.ignore; only "ignored", "nonBids" and "Not_yet_BIDS_curated" get an
\* empty uniqueness flag, every other path takes part in duplicate detection.
C8_CuratedPath ==
    cur_subject # None =>
        LET rows  == RowsOf(nifti_df)
            files == SelectSeq(project, LAMBDA f : f.subject = cur_subject)
        IN  /\ Len(rows) = Len(files)
            /\ \A i \in DOMAIN rows :
                  /\ rows[i].path = PathFromMetadata(files[i].info)
                  /\ rows[i].unique = "" <=> rows[i].path \in TakesNoPart
                  /\ rows[i].path \notin TakesNoPart =>
                        rows[i].unique = FlagFromEarlierRows(rows, i)

\* C8 witness: two files of a subject lack the ignore and Filename keys; the
\* second is flagged as a duplicate of the first.
C8_Witness ==
    /\ cur_subject # None
    /\ \E i \in DOMAIN nifti_df :
          /\ nifti_df[i][2].path = "missing_ignore missing_Filename "
          /\ nifti_df[i][2].unique = "duplicate 1"

\* C9: the final-values section finds a list for every fieldmap recorded during
\* the scan, also for a file whose name matches no first regex; the run does
\* not stop with a missing key there, and the acquisitions csv and the
\* duplicate report are produced.
C9_FinalSectionComplete ==
    /\ pc # "KeyError"
    /\ Finished =>
          /\ \A j \in DOMAIN project :
                IsFieldmap(project[j]) =>
                    DictHas(DictGet(new_intended_fors, project[j].subject), project[j].name)
          /\ \E i \in DOMAIN written : written[i].suffix = "_acquisitions.csv"
    /\ pc = "exit0" => stdout # <<>>

\* the lists a scan of the files records for one subject
RECURSIVE ScannedLists(_, _)
ScannedLists(files, lists) ==
    IF files = <<>> THEN lists
    ELSE ScannedLists(Tail(files),
                      IF IsFieldmap(Head(files))
                      THEN DictSet(lists, Head(files).name, Head(files).info.IntendedFor)
                      ELSE lists)

\* all_intended_fors as the scan of the project leaves it
ScannedIntendedFors ==
    [n \in DOMAIN subjects |->
        <<subjects[n],
          ScannedLists(SelectSeq(project, LAMBDA f : f.subject = subjects[n]), <<>>)>>]

\* C10: the -v count only controls logging and the "Initial values" section:
\* the write-back calls of a run (their order, and the contents and order of the
\* lists they set) and its final lists are those of the run without -v on the
\* same project and -i list.
C10_VerbosityOnlyLogs ==
    Finished =>
        /\ fw_calls = WriteBackCalls(args.intended_for,
                          InitialLists(0, ScannedIntendedFors, all_intended_for_dirs),
                          all_intended_for_dirs, all_intended_for_acq_id)
        /\ new_intended_fors = NewIntendedFors(args.intended_for,
                                   InitialLists(0, ScannedIntendedFors, all_intended_for_dirs),
                                   all_intended_for_dirs)

\* the traversal leaves all_intended_fors as ScannedIntendedFors has it
ScanLeavesScannedLists ==
    (pc = "scan" /\ cur_subject = None) => all_intended_fors = ScannedIntendedFors

====
